---- MODULE Spec2Model ----
(***************************************************************************)
(* Model of xvf3800_doa.py: the XVF3800 register protocol over USB vendor  *)
(* control transfers (ReSpeaker.read / ReSpeaker.write / ReSpeaker.close), *)
(* device discovery (find) and the polling program (main).                 *)
(*                                                                         *)
(* Two specifications are given.  Spec is one run of main().  SpecApi      *)
(* applies ReSpeaker.read and ReSpeaker.write to an open session with      *)
(* arbitrary names and value lists.  Both run the same read steps.         *)
(***************************************************************************)
EXTENDS Integers, Sequences, FiniteSets, TLC

VARIABLES
    bus,        \* the devices attached to the USB bus, [vid, pid] each
    pc,         \* main(): the statement it is at
    dev,        \* main(): the local `dev` (NoDev models None)
    queries,    \* the usb.core.find() calls issued so far, in order
    call,       \* the frame of the ReSpeaker.read / ReSpeaker.write call in progress
    events,     \* the control transfers and sleeps issued so far, in order
    closed,     \* number of ReSpeaker.close() calls made
    version,    \* main(): the local `version`
    doa,        \* main(): the local `doa`
    az_values,  \* main(): the local `az_values`
    out,        \* the last line main() formatted for the console
    exc,        \* the exception propagating through main()'s try statement
    exit,       \* how the process ended ("running" while it has not)
    entered     \* history: main() has entered its try / while True

vars == <<bus, pc, dev, queries, call, events, closed, version, doa,
          az_values, out, exc, exit, entered>>

----------------------------------------------------------------------------
(* Bounds of the model *)

\* longest value list handed to write() by SpecApi
MaxLen == 4
\* cap on the length of the event log (1 VERSION read + 2 full iterations)
MaxEvents == 7
\* the device answers with byte pattern 0 .. MaxPattern
MaxPattern == 1

----------------------------------------------------------------------------
(* Parameter table *)

\* name -> <<resid, cmdid, length, permission, data type>>
PARAMETERS ==
    [n \in {"VERSION", "AEC_AZIMUTH_VALUES", "DOA_VALUE", "REBOOT"} |->
        CASE n = "VERSION"            -> <<48, 0, 3, "ro", "uint8">>
          [] n = "AEC_AZIMUTH_VALUES" -> <<33, 75, 16, "ro", "radians">>
          [] n = "DOA_VALUE"          -> <<20, 18, 4, "ro", "uint16">>
          [] n = "REBOOT"             -> <<48, 7, 1, "wo", "uint8">>]

TIMEOUT == 100000

\* the names SpecApi passes: the registered ones and two that are not
Names == DOMAIN PARAMETERS \cup {"UNKNOWN", "version"}

\* the values SpecApi passes in value lists (256 does not fit one byte)
Values == {0, 255, 256}

----------------------------------------------------------------------------
(* Arithmetic helpers *)

Min(a, b) == IF a < b THEN a ELSE b

RECURSIVE Pow2(_)
Pow2(n) == IF n = 0 THEN 1 ELSE 2 * Pow2(n - 1)

\* a | b on naturals below 2^k
RECURSIVE BitOr(_, _, _)
BitOr(a, b, k) ==
    IF k = 0 THEN 0
    ELSE (IF (a % 2 = 1) \/ (b % 2 = 1) THEN 1 ELSE 0)
         + 2 * BitOr(a \div 2, b \div 2, k - 1)

RECURSIVE FloorLog2(_)
FloorLog2(v) == IF v < 2 THEN 0 ELSE 1 + FloorLog2(v \div 2)

----------------------------------------------------------------------------
(* Register codec *)

\* A float is represented by its IEEE-754 single bit pattern, as a natural.

\* struct.unpack('<f', b): the little-endian single held in four bytes
UnpackF32LE(b) == b[1] + 256 * b[2] + 65536 * b[3] + 16777216 * b[4]

\* the four little-endian bytes of a 32-bit pattern
BytesLE32(w) ==
    << w % 256, (w \div 256) % 256, (w \div 65536) % 256, (w \div 16777216) % 256 >>

\* the IEEE-754 single bit pattern of float(v), v a natural below 2^24
Float32Bits(v) ==
    IF v = 0 THEN 0
    ELSE LET e == FloorLog2(v)
         IN  (e + 127) * Pow2(23) + (v - Pow2(e)) * Pow2(23 - e)

\* struct.pack(b'f', float(v)) on a little-endian host
PackF32(v) == BytesLE32(Float32Bits(v))

\* struct.pack(b'i', v): two's complement, little-endian host
PackI32(v) == BytesLE32(v % Pow2(32))

RECURSIVE Concat(_)
Concat(ss) == IF ss = << >> THEN << >> ELSE Head(ss) \o Concat(Tail(ss))

\* results of calls and of codec steps: a value list, None, or a raise
Value(v)  == [kind |-> "value", val |-> v, err |-> ""]
NoneValue == [kind |-> "None", val |-> << >>, err |-> ""]
Raise(e)  == [kind |-> "raise", val |-> << >>, err |-> e]

AccessDenied          == "ValueError: is read-only"
ArgumentCountMismatch == "ValueError: value count is not"

\* write(): the payload built from data_list, lines 39-49
Encode(data, data_list) ==
    LET data_type == data[5]
        data_cnt  == data[3]
    IN  IF data_type \in {"float", "radians"}
        THEN Value(Concat([i \in 1..data_cnt |-> PackF32(data_list[i])]))
        ELSE IF data_type \in {"char", "uint8"}
        THEN IF \E i \in 1..data_cnt : data_list[i] \notin 0..255
             THEN Raise("OverflowError")
             ELSE Value([i \in 1..data_cnt |-> data_list[i]])
        ELSE IF \E i \in 1..data_cnt :
                    data_list[i] \notin (0 - Pow2(31))..(Pow2(31) - 1)
             THEN Raise("struct.error")
             ELSE Value(Concat([i \in 1..data_cnt |-> PackI32(data_list[i])]))

\* a variant of NumValues: one float per declared element
NumValuesPerElement(length) == length - 1

\* read(): the number of floats unpacked, line 88
NumValues(length) == (length - 1) \div 4

\* read(): the result built from the response, lines 84-97
Decode(data, length, response) ==
    IF data[5] = "uint8" THEN Value(response)
    ELSE IF data[5] = "radians"
    THEN LET num_values == NumValues(length)
             body       == SubSeq(response, 2, Min(length, Len(response)))
         IN  IF Len(body) # 4 * num_values
             THEN Raise("struct.error")
             ELSE Value([i \in 1..num_values |->
                            UnpackF32LE(SubSeq(body, 4 * i - 3, 4 * i))])
    ELSE IF data[5] = "uint16" THEN Value(response)
    ELSE Value(response)

----------------------------------------------------------------------------
(* ReSpeaker.read and ReSpeaker.write, one action per step *)

\* a variant of Lookup: names are matched without regard to case
LookupIgnoreCase(name) ==
    IF name \in DOMAIN PARAMETERS
    THEN [found |-> TRUE, data |-> PARAMETERS[name]]
    ELSE IF name = "version"
    THEN [found |-> TRUE, data |-> PARAMETERS["VERSION"]]
    ELSE [found |-> FALSE, data |-> <<0, 0, 0, "", "">>]

\* PARAMETERS[name] with its KeyError, lines 25-28 and 63-66
Lookup(name) ==
    IF name \in DOMAIN PARAMETERS
    THEN [found |-> TRUE, data |-> PARAMETERS[name]]
    ELSE [found |-> FALSE, data |-> <<0, 0, 0, "", "">>]

\* a variant of WriteValidate: the count check comes first
WriteValidateCountFirst(data, data_list) ==
    IF Len(data_list) # data[3] THEN ArgumentCountMismatch
    ELSE IF data[4] = "ro" THEN AccessDenied
    ELSE "ok"

\* a variant of WriteValidate: only too short a list is rejected
WriteValidateShortOnly(data, data_list) ==
    IF data[4] = "ro" THEN AccessDenied
    ELSE IF Len(data_list) < data[3] THEN ArgumentCountMismatch
    ELSE "ok"

\* the two checks of write(), in the order of lines 30-33
WriteValidate(data, data_list) ==
    IF data[4] = "ro" THEN AccessDenied
    ELSE IF Len(data_list) # data[3] THEN ArgumentCountMismatch
    ELSE "ok"

\* a variant of ReadRequest: the read bit 0x80 is not set
ReadRequestNoFlag(data) ==
    [kind    |-> "in",
     request |-> 0,
     value   |-> data[2],
     index   |-> data[1],
     length  |-> data[3] + 1,
     data    |-> << >>,
     timeout |-> TIMEOUT,
     status  |-> "pending"]

\* the device-to-host transfer read() issues, lines 68-81
ReadRequest(data) ==
    [kind    |-> "in",
     request |-> 0,
     value   |-> BitOr(128, data[2], 8),
     index   |-> data[1],
     length  |-> data[3] + 1,
     data    |-> << >>,
     timeout |-> TIMEOUT,
     status  |-> "pending"]

\* the host-to-device transfer write() issues, lines 35-38 and 51-60
WriteRequest(data, payload) ==
    [kind    |-> "out",
     request |-> 0,
     value   |-> data[2],
     index   |-> data[1],
     length  |-> Len(payload),
     data    |-> payload,
     timeout |-> TIMEOUT,
     status  |-> "pending"]

\* time.sleep(0.5) as an entry of the event log
SleepEvent ==
    [kind |-> "sleep", request |-> 0, value |-> 0, index |-> 0, length |-> 0,
     data |-> << >>, timeout |-> 0, status |-> "ok"]

\* what the device may answer to a read of `length` bytes: at most `length`
\* bytes, every byte distinct from its neighbours
Pattern(p, k) == [i \in 1..k |-> (16 * p + 3 * i) % 256]
Responses(length) == { Pattern(p, k) : p \in 0..MaxPattern, k \in 0..length }

Idle ==
    [op |-> "none", name |-> "", data_list |-> << >>, cpc |-> "idle",
     payload |-> << >>, response |-> << >>, result |-> NoneValue]

Frame(op, name, data_list) ==
    [op |-> op, name |-> name, data_list |-> data_list, cpc |-> "lookup",
     payload |-> << >>, response |-> << >>, result |-> NoneValue]

Finish(result) == [call EXCEPT !.cpc = "done", !.result = result]

Settle(status) == [events EXCEPT ![Len(events)].status = status]

mainVars == <<bus, pc, dev, queries, closed, version, doa, az_values, out,
              exc, exit, entered>>

\* read(), lines 63-66
read_lookup ==
    /\ call.op = "read" /\ call.cpc = "lookup"
    /\ call' = IF Lookup(call.name).found
               THEN [call EXCEPT !.cpc = "transfer"]
               ELSE Finish(NoneValue)
    /\ UNCHANGED <<events, mainVars>>

\* read(), lines 68-81: the transfer goes out
read_transfer ==
    /\ call.op = "read" /\ call.cpc = "transfer"
    /\ Len(events) < MaxEvents
    /\ events' = Append(events, ReadRequest(Lookup(call.name).data))
    /\ call' = [call EXCEPT !.cpc = "wait"]
    /\ UNCHANGED mainVars

\* read(), lines 72 and 83-97: the response arrives and is decoded
read_response ==
    /\ call.op = "read" /\ call.cpc = "wait"
    /\ \E response \in Responses(events[Len(events)].length) :
          LET data == Lookup(call.name).data
          IN  call' = [Finish(Decode(data, data[3] + 1, response))
                           EXCEPT !.response = response]
    /\ events' = Settle("ok")
    /\ UNCHANGED mainVars

\* ctrl_transfer raises (USB failure or timeout), lines 51 and 72
ctrl_transfer_error ==
    /\ call.cpc = "wait"
    /\ call' = Finish(Raise("USBError"))
    /\ events' = Settle("failed")
    /\ UNCHANGED mainVars

\* write(), lines 25-28
write_lookup ==
    /\ call.op = "write" /\ call.cpc = "lookup"
    /\ call' = IF Lookup(call.name).found
               THEN [call EXCEPT !.cpc = "validate"]
               ELSE Finish(NoneValue)
    /\ UNCHANGED <<events, mainVars>>

\* a variant of write_validate: the transfer goes out before the checks
write_validate_late ==
    /\ call.op = "write" /\ call.cpc = "validate"
    /\ Len(events) < MaxEvents
    /\ LET data == Lookup(call.name).data
           v    == WriteValidate(data, call.data_list)
       IN  /\ events' = Append(events, [WriteRequest(data, call.data_list)
                                           EXCEPT !.status = "ok"])
           /\ call' = IF v = "ok" THEN Finish(NoneValue) ELSE Finish(Raise(v))
    /\ UNCHANGED mainVars

\* write(), lines 30-33
write_validate ==
    /\ call.op = "write" /\ call.cpc = "validate"
    /\ LET v == WriteValidate(Lookup(call.name).data, call.data_list)
       IN  call' = IF v = "ok" THEN [call EXCEPT !.cpc = "encode"]
                   ELSE Finish(Raise(v))
    /\ UNCHANGED <<events, mainVars>>

\* write(), lines 35-49
write_encode ==
    /\ call.op = "write" /\ call.cpc = "encode"
    /\ LET e == Encode(Lookup(call.name).data, call.data_list)
       IN  call' = IF e.kind = "value"
                   THEN [call EXCEPT !.cpc = "transfer", !.payload = e.val]
                   ELSE Finish(e)
    /\ UNCHANGED <<events, mainVars>>

\* write(), lines 51-60: the transfer goes out
write_transfer ==
    /\ call.op = "write" /\ call.cpc = "transfer"
    /\ Len(events) < MaxEvents
    /\ events' = Append(events, WriteRequest(Lookup(call.name).data, call.payload))
    /\ call' = [call EXCEPT !.cpc = "wait"]
    /\ UNCHANGED mainVars

\* write(), line 51: the transfer completes; write() returns None
write_complete ==
    /\ call.op = "write" /\ call.cpc = "wait"
    /\ call' = Finish(NoneValue)
    /\ events' = Settle("ok")
    /\ UNCHANGED mainVars

----------------------------------------------------------------------------
(* Discovery *)

VendorId == 10374       \* 0x2886
AnyProduct == 0 - 1     \* usb.core.find() called without idProduct

NoDev == [vid |-> 0, pid |-> 0]

\* the devices that may be attached: both known products, another product
\* of the same vendor, and a foreign device with a known product id
Devices ==
    { [vid |-> VendorId, pid |-> 26], [vid |-> VendorId, pid |-> 24],
      [vid |-> VendorId, pid |-> 25], [vid |-> 4660, pid |-> 26] }

\* a variant of vids_pids: the candidates in the other order
vids_pids_swapped == << <<VendorId, 24>>, <<VendorId, 26>> >>

\* find(): the candidate list, lines 107-110
vids_pids == << <<VendorId, 26>>, <<VendorId, 24>> >>

\* usb.core.find(idVendor=..., idProduct=...): the devices it may return
Matches(b, q) ==
    { d \in b : d.vid = q.vid /\ (q.pid = AnyProduct \/ d.pid = q.pid) }

\* find(), lines 111-121, from candidate i on: the queries made and the
\* devices the session may wrap (none: find() returns None)
RECURSIVE FindFrom(_, _)
FindFrom(b, i) ==
    IF i > Len(vids_pids)
    THEN LET q == [vid |-> VendorId, pid |-> AnyProduct]
         IN  [queries |-> <<q>>, found |-> Matches(b, q)]
    ELSE LET q == [vid |-> vids_pids[i][1], pid |-> vids_pids[i][2]]
         IN  IF Matches(b, q) # {}
             THEN [queries |-> <<q>>, found |-> Matches(b, q)]
             ELSE LET r == FindFrom(b, i + 1)
                  IN  [queries |-> <<q>> \o r.queries, found |-> r.found]

find(b) == FindFrom(b, 1)

----------------------------------------------------------------------------
(* main() *)

NoLine == [tag |-> "", a |-> 0, b |-> 0, c |-> 0]
NoneInt == 0 - 1        \* None where main() prints an integer or None

\* main(), lines 146-150; d is the list `doa`, 1-based here
AngleRaw(d) ==
    IF Len(d) >= 3 THEN BitOr(d[2], d[3] * 256, 16)
    ELSE IF Len(d) >= 2 THEN d[2]
    ELSE NoneInt

\* main(), line 152
SpeechFlag(d) == IF Len(d) > 3 THEN d[4] ELSE NoneInt

\* the register each reading statement of main() names
StmtName(p) ==
    CASE p = "version" -> "VERSION"
      [] p = "doa"     -> "DOA_VALUE"
      [] p = "az"      -> "AEC_AZIMUTH_VALUES"

InTry == {"doa", "doa_fmt", "az", "az_fmt", "sleep", "sleeping"}

\* main(), lines 125-128
main_find ==
    /\ pc = "find"
    /\ LET r == find(bus)
       IN  /\ queries' = r.queries
           /\ IF r.found = {}
              THEN /\ dev' = NoDev
                   /\ pc' = "done"
                   /\ exit' = "exit 1"
                   /\ out' = [NoLine EXCEPT !.tag = "No XVF3800 device found"]
              ELSE /\ dev' \in r.found
                   /\ pc' = "version"
                   /\ UNCHANGED <<exit, out>>
    /\ UNCHANGED <<bus, call, events, closed, version, doa, az_values, exc, entered>>

\* main(), lines 131, 139 and 161: dev.read(name) is entered
main_call_read ==
    /\ pc \in {"version", "doa", "az"}
    /\ call.cpc = "idle"
    /\ call' = Frame("read", StmtName(pc), << >>)
    /\ UNCHANGED <<events, mainVars>>

\* main(), lines 131-136, 139 and 161: dev.read(name) returns
main_read_return ==
    /\ pc \in {"version", "doa", "az"}
    /\ call.cpc = "done" /\ call.result.kind # "raise"
    /\ call' = Idle
    /\ version' = IF pc = "version" THEN call.result ELSE version
    /\ doa' = IF pc = "doa" THEN call.result ELSE doa
    /\ az_values' = IF pc = "az" THEN call.result ELSE az_values
    /\ pc' = CASE pc = "version" -> "doa"
               [] pc = "doa"     -> "doa_fmt"
               [] pc = "az"      -> "az_fmt"
    /\ entered' = TRUE
    /\ UNCHANGED <<bus, dev, queries, events, closed, out, exc, exit>>

\* a variant of main_read_raise: a failed read is tried again
main_read_retry ==
    /\ pc \in {"version", "doa", "az"}
    /\ call.cpc = "done" /\ call.result.kind = "raise"
    /\ call' = Idle
    /\ UNCHANGED <<events, mainVars>>

\* a variant of main_read_raise: the exception leaves main() at once
main_read_raise_unprotected ==
    /\ pc \in {"version", "doa", "az"}
    /\ call.cpc = "done" /\ call.result.kind = "raise"
    /\ call' = Idle
    /\ pc' = "done"
    /\ exit' = "traceback"
    /\ UNCHANGED <<bus, dev, queries, events, closed, version, doa, az_values,
                   out, exc, entered>>

\* dev.read(name) raises: uncaught at line 131; inside the try statement
\* (lines 139, 161) no except clause matches and the finally clause runs
main_read_raise ==
    /\ pc \in {"version", "doa", "az"}
    /\ call.cpc = "done" /\ call.result.kind = "raise"
    /\ call' = Idle
    /\ IF pc \in InTry
       THEN /\ pc' = "finally"
            /\ exc' = call.result.err
            /\ UNCHANGED exit
       ELSE /\ pc' = "done"
            /\ exit' = "traceback"
            /\ UNCHANGED exc
    /\ UNCHANGED <<bus, dev, queries, events, closed, version, doa, az_values,
                   out, entered>>

\* main(), lines 140-158
main_doa_fmt ==
    /\ pc = "doa_fmt"
    /\ out' = IF doa.kind = "value" /\ Len(doa.val) > 0
              THEN [tag |-> "[DOA_VALUE]", a |-> doa.val[1],
                    b |-> SpeechFlag(doa.val), c |-> AngleRaw(doa.val)]
              ELSE out
    /\ pc' = "az"
    /\ UNCHANGED <<bus, dev, queries, call, events, closed, version, doa,
                   az_values, exc, exit, entered>>

\* main(), lines 162-173; a is the number of angles on the line
main_az_fmt ==
    /\ pc = "az_fmt"
    /\ out' = IF az_values.kind = "value" /\ Len(az_values.val) > 0
              THEN [tag |-> "[AZIMUTH]",
                    a |-> IF Len(az_values.val) > 1 THEN 2 ELSE 1,
                    b |-> 0, c |-> 0]
              ELSE out
    /\ pc' = "sleep"
    /\ UNCHANGED <<bus, dev, queries, call, events, closed, version, doa,
                   az_values, exc, exit, entered>>

\* main(), line 174: time.sleep(0.5) begins
main_sleep ==
    /\ pc = "sleep"
    /\ Len(events) < MaxEvents
    /\ events' = Append(events, SleepEvent)
    /\ pc' = "sleeping"
    /\ UNCHANGED <<bus, dev, queries, call, closed, version, doa, az_values,
                   out, exc, exit, entered>>

\* main(), lines 174 and 137: the sleep ends, next iteration
main_wake ==
    /\ pc = "sleeping"
    /\ pc' = "doa"
    /\ UNCHANGED <<bus, dev, queries, call, events, closed, version, doa,
                   az_values, out, exc, exit, entered>>

\* KeyboardInterrupt is raised in main(): uncaught before the try statement
\* (lines 125-134), caught by line 176 inside it.  A transfer in progress
\* is abandoned.
interrupt ==
    /\ pc \in {"find", "version"} \cup InTry
    /\ call' = Idle
    /\ events' = IF events # << >> /\ events[Len(events)].status = "pending"
                 THEN Settle("interrupted") ELSE events
    /\ IF pc \in InTry
       THEN /\ pc' = "except"
            /\ exc' = "KeyboardInterrupt"
            /\ UNCHANGED exit
       ELSE /\ pc' = "done"
            /\ exit' = "traceback"
            /\ UNCHANGED exc
    /\ UNCHANGED <<bus, dev, queries, closed, version, doa, az_values, out, entered>>

\* main(), lines 176-177
main_except ==
    /\ pc = "except"
    /\ exc' = ""
    /\ out' = [NoLine EXCEPT !.tag = "stopped"]
    /\ pc' = "finally"
    /\ UNCHANGED <<bus, dev, queries, call, events, closed, version, doa,
                   az_values, exit, entered>>

\* ReSpeaker.close(), lines 99-100
close == closed' = closed + 1

\* main(), lines 179-180, then main() returns or the exception propagates
main_finally ==
    /\ pc = "finally"
    /\ close
    /\ pc' = "done"
    /\ exit' = IF exc = "" THEN "exit 0" ELSE "traceback"
    /\ UNCHANGED <<bus, dev, queries, call, events, version, doa, az_values,
                   out, exc, entered>>

Init ==
    /\ bus \in SUBSET Devices
    /\ pc = "find"
    /\ dev = NoDev
    /\ queries = << >>
    /\ call = Idle
    /\ events = << >>
    /\ closed = 0
    /\ version = NoneValue
    /\ doa = NoneValue
    /\ az_values = NoneValue
    /\ out = NoLine
    /\ exc = ""
    /\ exit = "running"
    /\ entered = FALSE

Next ==
    \/ main_find
    \/ main_call_read
    \/ read_lookup
    \/ read_transfer
    \/ read_response
    \/ ctrl_transfer_error
    \/ main_read_return
    \/ main_read_raise
    \/ main_doa_fmt
    \/ main_az_fmt
    \/ main_sleep
    \/ main_wake
    \/ interrupt
    \/ main_except
    \/ main_finally

Spec == Init /\ [][Next]_vars

----------------------------------------------------------------------------
(* ReSpeaker.read / ReSpeaker.write applied to an open session *)

ValueLists == UNION { [1..n -> Values] : n \in 0..MaxLen }

\* a caller invokes session.read(name)
api_read ==
    /\ pc = "api"
    /\ call.cpc \in {"idle", "done"}
    /\ \E name \in Names : call' = Frame("read", name, << >>)
    /\ events' = << >>
    /\ UNCHANGED mainVars

\* a caller invokes session.write(name, data_list)
api_write ==
    /\ pc = "api"
    /\ call.cpc \in {"idle", "done"}
    /\ \E name \in Names, data_list \in ValueLists :
          call' = Frame("write", name, data_list)
    /\ events' = << >>
    /\ UNCHANGED mainVars

InitApi ==
    /\ dev \in { d \in Devices : d.vid = VendorId }
    /\ bus = {dev}
    /\ pc = "api"
    /\ queries = << >>
    /\ call = Idle
    /\ events = << >>
    /\ closed = 0
    /\ version = NoneValue
    /\ doa = NoneValue
    /\ az_values = NoneValue
    /\ out = NoLine
    /\ exc = ""
    /\ exit = "running"
    /\ entered = FALSE

NextApi ==
    \/ api_read
    \/ api_write
    \/ read_lookup
    \/ read_transfer
    \/ read_response
    \/ ctrl_transfer_error
    \/ write_lookup
    \/ write_validate
    \/ write_encode
    \/ write_transfer
    \/ write_complete

SpecApi == InitApi /\ [][NextApi]_vars

----------------------------------------------------------------------------
(* Properties *)

\* the descriptor of the call in progress
CallData == Lookup(call.name).data
CallKnown == call.name \in DOMAIN PARAMETERS

\* C1: once main() has entered its try / while True, every way out of the
\* loop (an interrupt during either read, the formatting or the sleep, or
\* an error raised by either read) ends with exactly one close(): none
\* while the loop or the except clause runs, one when the process is over.
C1_CloseOnceAfterLoop ==
    /\ closed <= 1
    /\ (entered /\ pc \in InTry \cup {"except", "finally"}) => closed = 0
    /\ (entered /\ pc = "done") => closed = 1

\* C1 case: a transfer error in the second iteration ended the run
C1_Witness ==
    /\ entered /\ pc = "done" /\ closed = 1
    /\ exit = "traceback"
    /\ Len(events) >= 5
    /\ events[Len(events)].status = "failed"

\* C2: in every run in which find() created a session, the session is
\* closed exactly once when the process is over, also when the VERSION
\* read before the loop is interrupted or fails.
C2_SessionClosedOnce ==
    (dev # NoDev /\ pc = "done") => closed = 1

\* C3: write() on a registered read-only name always fails with
\* AccessDenied, whatever the value list and whatever its length; the call
\* never gets past the checks.
C3_ReadOnlyDenied ==
    (call.op = "write" /\ CallKnown /\ CallData[4] = "ro") =>
        /\ call.cpc \in {"lookup", "validate", "done"}
        /\ call.cpc = "done" => call.result = Raise(AccessDenied)

\* C3 case: a read-only register written with a list of the wrong length
C3_Witness ==
    /\ call.op = "write" /\ call.cpc = "done"
    /\ call.name = "DOA_VALUE"
    /\ Len(call.data_list) = 2
    /\ call.result = Raise(AccessDenied)

\* C4 as stated: write() with a list whose length is not the register's
\* element count fails with ArgumentCountMismatch for every registered name.
C4_CountMismatchForEveryName ==
    (/\ call.op = "write" /\ CallKnown /\ call.cpc = "done"
     /\ Len(call.data_list) # CallData[3])
        => call.result = Raise(ArgumentCountMismatch)

\* C4 amended: write() with a list of the wrong length fails with
\* ArgumentCountMismatch for every registered name that is not read-only,
\* and with AccessDenied for a read-only one; ArgumentCountMismatch is
\* raised in no other case.
C4_CountMismatchUnlessReadOnly ==
    (call.op = "write" /\ CallKnown /\ call.cpc = "done") =>
        /\ (CallData[4] # "ro" /\ Len(call.data_list) # CallData[3])
              => call.result = Raise(ArgumentCountMismatch)
        /\ (CallData[4] = "ro" /\ Len(call.data_list) # CallData[3])
              => call.result = Raise(AccessDenied)
        /\ call.result.err = ArgumentCountMismatch
              => (CallData[4] # "ro" /\ Len(call.data_list) # CallData[3])

\* C4 case: the write-only register written with too long a list
C4_Witness ==
    /\ call.op = "write" /\ call.cpc = "done"
    /\ call.name = "REBOOT"
    /\ Len(call.data_list) = 2
    /\ call.result = Raise(ArgumentCountMismatch)

\* C5: a write() rejected with AccessDenied or ArgumentCountMismatch has
\* issued no transfer; a write() issues at most one transfer, host to
\* device, and only once the access check and the count check have passed
\* and the whole payload is encoded.
C5_FailFast ==
    call.op = "write" =>
        /\ Len(events) <= 1
        /\ (call.cpc = "done"
            /\ call.result.err \in {AccessDenied, ArgumentCountMismatch})
              => events = << >>
        /\ events # << >> =>
              /\ call.cpc \in {"wait", "done"}
              /\ CallKnown
              /\ CallData[4] # "ro"
              /\ Len(call.data_list) = CallData[3]
              /\ events[1].kind = "out"
              /\ events[1].data = call.payload
              /\ Len(call.payload) = CallData[3]
              /\ \A i \in 1..CallData[3] : call.payload[i] = call.data_list[i]

\* C5 case: a write that passed both checks and sent its payload
C5_Witness ==
    /\ call.op = "write" /\ call.cpc = "done"
    /\ call.result = NoneValue
    /\ Len(events) = 1
    /\ events[1].data = <<255>>

\* C6: for a name that is not in the table, read() and write() issue no
\* transfer, raise nothing and return None, whatever the value list.
C6_UnknownNameNoOp ==
    (call.op \in {"read", "write"} /\ ~CallKnown) =>
        /\ events = << >>
        /\ call.cpc \in {"lookup", "done"}
        /\ call.cpc = "done" => call.result = NoneValue

\* C6 case: write() of a non-empty list to an unknown name has returned
C6_Witness ==
    /\ call.op = "write" /\ call.cpc = "done"
    /\ call.name = "version"
    /\ Len(call.data_list) = 1
    /\ call.result = NoneValue

\* C7: for every registered name, read-only or write-only, read() issues
\* exactly one device-to-host transfer with request 0, value 0x80 | cmdid,
\* index resid and length count + 1, all from the table, and the response
\* changes none of them.
C7_ReadTransferShape ==
    (call.op = "read" /\ CallKnown /\ pc = "api") =>
        /\ call.cpc \in {"lookup", "transfer"} => events = << >>
        /\ call.cpc \in {"wait", "done"} =>
              /\ Len(events) = 1
              /\ events[1].kind = "in"
              /\ events[1].request = 0
              /\ events[1].value = 128 + PARAMETERS[call.name][2]
              /\ events[1].index = PARAMETERS[call.name][1]
              /\ events[1].length = PARAMETERS[call.name][3] + 1

\* C7 case: the write-only register REBOOT has been read
C7_Witness ==
    /\ call.op = "read" /\ call.cpc = "done" /\ pc = "api"
    /\ call.name = "REBOOT"
    /\ events = << [ReadRequest(PARAMETERS["REBOOT"]) EXCEPT !.status = "ok"] >>
    /\ events[1].value = 135

\* C8 as stated: a decoded read of a radians register returns exactly
\* elementCount values (16 for AEC_AZIMUTH_VALUES).
C8_ElementCountFloats ==
    (/\ call.op = "read" /\ CallKnown /\ call.cpc = "done"
     /\ CallData[5] \in {"float", "radians"}
     /\ call.result.kind = "value")
        => Len(call.result.val) = CallData[3]

\* C8 amended: a read of a radians register whose response carries all
\* elementCount + 1 bytes returns elementCount / 4 values, value i being the
\* little-endian single in the four bytes 4i-2 .. 4i+1 of the response
\* (the elementCount bytes after the header byte); AEC_AZIMUTH_VALUES
\* yields 4 values.  A shorter response raises struct.error.
C8_QuarterCountFloats ==
    (/\ call.op = "read" /\ CallKnown /\ call.cpc = "done"
     /\ CallData[5] = "radians"
     /\ call.result.err # "USBError")
        => IF Len(call.response) = CallData[3] + 1
           THEN /\ call.result.kind = "value"
                /\ Len(call.result.val) = CallData[3] \div 4
                /\ call.name = "AEC_AZIMUTH_VALUES"
                      => Len(call.result.val) = 4
                /\ \A i \in 1..Len(call.result.val) :
                      call.result.val[i] =
                            call.response[4 * i - 2]
                          + 256 * call.response[4 * i - 1]
                          + 65536 * call.response[4 * i]
                          + 16777216 * call.response[4 * i + 1]
           ELSE call.result = Raise("struct.error")

\* C8 case: AEC_AZIMUTH_VALUES decoded from a full 17-byte response
C8_Witness ==
    /\ call.op = "read" /\ call.cpc = "done"
    /\ call.name = "AEC_AZIMUTH_VALUES"
    /\ Len(call.response) = 17
    /\ call.result.kind = "value"
    /\ Len(call.result.val) = 4

\* the devices and queries find() is about
Product1A == [vid |-> 10374, pid |-> 26]
Product18 == [vid |-> 10374, pid |-> 24]
VendorOnly == [vid |-> 10374, pid |-> AnyProduct]
VendorPresent == \E d \in bus : d.vid = 10374

\* C9: find() asks for (0x2886,0x001A), then (0x2886,0x0018), and wraps
\* the first of the two that is present; it asks for the vendor alone only
\* when neither is present, and then wraps a device of that vendor if there
\* is one; it reports no device exactly when the bus has none of the vendor.
C9_DiscoveryOrder ==
    queries # << >> =>
        /\ Product1A \in bus =>
              (dev = Product1A /\ queries = <<Product1A>>)
        /\ (Product1A \notin bus /\ Product18 \in bus) =>
              (dev = Product18 /\ queries = <<Product1A, Product18>>)
        /\ (Product1A \notin bus /\ Product18 \notin bus) =>
              /\ queries = <<Product1A, Product18, VendorOnly>>
              /\ VendorPresent => (dev \in bus /\ dev.vid = 10374)
        /\ (dev = NoDev) = ~VendorPresent
        /\ (exit = "exit 1") = ~VendorPresent
        /\ exit = "exit 1" => (pc = "done" /\ closed = 0)

\* C9 case: only the second pair and another product of the vendor are
\* present, and the second pair's device was taken
C9_Witness ==
    /\ bus = {Product18, [vid |-> 10374, pid |-> 25]}
    /\ dev = Product18
    /\ queries = <<Product1A, Product18>>

\* the event a run issues at position i of its log
ExpectedEvent(i) ==
    IF i = 1 THEN ReadRequest(PARAMETERS["VERSION"])
    ELSE IF (i - 2) % 3 = 0 THEN ReadRequest(PARAMETERS["DOA_VALUE"])
    ELSE IF (i - 2) % 3 = 1 THEN ReadRequest(PARAMETERS["AEC_AZIMUTH_VALUES"])
    ELSE SleepEvent

\* C10: the events of a run are, in order, one VERSION read, then
\* repeatedly a DOA_VALUE read, an AEC_AZIMUTH_VALUES read and a sleep;
\* only the last event can be unfinished or failed (nothing follows a
\* failed transfer, and no two transfers overlap); and when find() found
\* no device there is no event and the loop is never entered.
C10_SequentialPolling ==
    /\ \A i \in 1..Len(events) :
          /\ [events[i] EXCEPT !.status = "pending"]
                = [ExpectedEvent(i) EXCEPT !.status = "pending"]
          /\ i < Len(events) => events[i].status = "ok"
    /\ dev = NoDev => (events = << >> /\ ~entered /\ pc \in {"find", "done"})

\* C10 case: the AEC_AZIMUTH_VALUES read of the second iteration failed,
\* after a sleep, and the run is over
C10_Witness ==
    /\ Len(events) = 6
    /\ events[4].kind = "sleep"
    /\ events[6].status = "failed"
    /\ pc = "done"

====
